---- MODULE Spec2Model ----
(***************************************************************************)
(* Ledger engine of greengrow_manager (src/inventory_manager.py): the      *)
(* tree-type, stock and transaction tables of the store and the operations *)
(* create_tree_type, add_stock_entry, move_stock_quantity and record_sale  *)
(* that write them.  No ledger operation reads the locations table (only   *)
(* the commands of src/main.py do), so a location is just its id.          *)
(*                                                                         *)
(* The committed store is the state.  Every operation works on the         *)
(* session's pending copy of the rows and ends in one db.commit(): the     *)
(* commit either writes every pending change or (store failure) raises     *)
(* and writes none.  Row ids are the positions in the table sequences      *)
(* (integer primary keys, rows are never deleted).  Prices and costs are   *)
(* Floats in the code; the model uses small naturals, on which the         *)
(* arithmetic of the code is exact.                                        *)
(*                                                                         *)
(* update_stock_quantity is imported by src/main.py but no command calls   *)
(* it; it is not an operation of the ledger and is left out of Next.       *)
(*                                                                         *)
(* Spec is the ledger.  SpecAudit adds the sales-history query             *)
(* get_all_transactions to it.  SpecHistory follows deliveries, sales made *)
(* at any time of day and sales-history queries over a catalogue of one    *)
(* tree type.                                                              *)
(***************************************************************************)
EXTENDS Integers, Sequences, FiniteSets, TLC

\* ------------------------------------------------------------------ bounds
MaxLots == 2       \* rows of stock
MaxTx == 1         \* rows of transactions
MaxHistory == 2    \* rows of transactions in the sales history
TicksPerDay == 2   \* clock readings per day

\* ------------------------------------------------------------------ inputs
TypeIds == {1, 2}                \* tree type ids used as arguments
LocIds == {1, 2}                 \* location ids used as arguments
LotIds == 1..(MaxLots + 1)       \* stock ids used as arguments
Quantities == {1, 2}             \* validate_positive_int: num > 0
\* The catalogue registered: the k-th tree type gets base price k + 1.
BasePriceOf(tree_type_id) == tree_type_id + 1
\* The batches delivered: seedlings of type 1 for the default cost 0.0 of the
\* add-stock command, of type 2 for cost 1 (validate_positive_float:
\* num >= 0).
CostOf(tree_type_id) == tree_type_id - 1

VARIABLES
    tree_types,     \* Seq of [base_unit_price], id = index
    stock,          \* Seq of Stock rows, id = index
    transactions,   \* Seq of Transaction rows, id = index
    prev,           \* [stock, transactions] committed before the last call
    last,           \* the last call: operation, arguments, what it returned
                    \* (r1, r2: the ids of the rows; r1 of a query: the ids
                    \* of the rows it returned, in order)
    added           \* per tree type, the quantities add_stock_entry has stored

vars == <<tree_types, stock, transactions, prev, last, added>>

\* ----------------------------------------------------------------- helpers
RECURSIVE SumQty(_, _)
\* sum(s.quantity for s in ...) over the lots whose ids are in ids
SumQty(s, ids) ==
    IF ids = {} THEN 0
    ELSE LET i == CHOOSE x \in ids : TRUE
         IN s[i].quantity + SumQty(s, ids \ {i})

NoCall == [op |-> "none", x |-> 0, y |-> 0, q |-> 0, cost |-> 0,
           ret |-> "init", r1 |-> 0, r2 |-> 0]

Call(op, x, y, q, cost, ret, r1, r2) ==
    [op |-> op, x |-> x, y |-> y, q |-> q, cost |-> cost,
     ret |-> ret, r1 |-> r1, r2 |-> r2]

\* A call that ended in the exception db.commit() raised.
Raised(op) == Call(op, 0, 0, 0, 0, "raise", 0, 0)

\* A call that returned None; x is the id it was asked about.
ReturnedNone(op, x) == Call(op, x, 0, 0, 0, "None", 0, 0)

\* datetime.datetime.now() as read when a row is added to a table.  The clock
\* has moved on since the table's last row was stored, and the code compares
\* a timestamp only with timestamps of the same table (order_by, lines 130
\* and 167) or with the dates of a query (lines 169-171), so the model keeps
\* the readings of each table apart: the k-th row of a table reads k.
Now(table) == Len(table) + 1

\* models.py: Stock row
Stock(tree_type_id, location_id, quantity, cost_per_seedling, date_added) ==
    [tree_type_id |-> tree_type_id, location_id |-> location_id,
     quantity |-> quantity, cost_per_seedling |-> cost_per_seedling,
     date_added |-> date_added]

\* models.py: Transaction row
Transaction(tree_type_id, quantity_sold, unit_price, total_amount, date) ==
    [tree_type_id |-> tree_type_id, quantity_sold |-> quantity_sold,
     unit_sale_price_at_time_of_sale |-> unit_price,
     total_amount |-> total_amount, transaction_date |-> date]

\* get_stock_by_id(...) is not None
get_stock_by_id(s, stock_id) == stock_id \in DOMAIN s

\* get_tree_type_by_id(...) is not None
get_tree_type_by_id(tt, tree_type_id) == tree_type_id \in DOMAIN tt

\* ------------------------------------------------------------------ commit
\* A commit that writes the stock rows although the commit fails.
CommitStockOnly(ok, committed, pending) ==
    IF ok THEN pending
    ELSE [stock |-> pending.stock, transactions |-> committed.transactions]

\* db.commit() of a session made with autocommit=False, autoflush=False:
\* all pending rows are written in one store transaction, or none.
Commit(ok, committed, pending) ==
    IF ok THEN pending ELSE committed

Store == [stock |-> stock, transactions |-> transactions]

Init ==
    /\ tree_types = << >>
    /\ stock = << >>
    /\ transactions = << >>
    /\ prev = [stock |-> << >>, transactions |-> << >>]
    /\ last = NoCall
    /\ added = [tree_type_id \in TypeIds |-> 0]

\* --------------------------------------------------------------- tree types
create_tree_type ==
    \E base_price \in {BasePriceOf(Len(tree_types) + 1)}, ok \in BOOLEAN :
        /\ Len(tree_types) < Cardinality(TypeIds)
        /\ tree_types' = IF ok
                         THEN Append(tree_types, [base_unit_price |-> base_price])
                         ELSE tree_types
        /\ prev' = Store
        /\ last' = IF ok
                   THEN Call("create_tree_type", 0, 0, 0, base_price, "ok",
                             Len(tree_types) + 1, 0)
                   ELSE Raised("create_tree_type")
        /\ UNCHANGED <<stock, transactions, added>>

\* ---------------------------------------------------------- add_stock_entry
\* An add that merges into a lot already at (type, location).
AddPendingMerging(s, tree_type_id, location_id, quantity, cost_per_seedling, t) ==
    LET same == {i \in DOMAIN s : /\ s[i].tree_type_id = tree_type_id
                                  /\ s[i].location_id = location_id}
    IN IF same = {}
       THEN Append(s, Stock(tree_type_id, location_id, quantity,
                            cost_per_seedling, t))
       ELSE LET i == CHOOSE x \in same : TRUE
            IN [s EXCEPT ![i].quantity = @ + quantity]

\* db.add(Stock(...)): the pending stock table of add_stock_entry
AddPending(s, tree_type_id, location_id, quantity, cost_per_seedling, t) ==
    Append(s, Stock(tree_type_id, location_id, quantity, cost_per_seedling, t))

\* The add-stock command looks the tree type up before it calls
\* add_stock_entry (src/main.py lines 112-117).
add_stock_entry ==
    \E tree_type_id \in TypeIds, location_id \in LocIds,
       quantity \in Quantities, ok \in BOOLEAN :
        LET cost_per_seedling == CostOf(tree_type_id)
            t == Now(stock)
            pending == [stock |-> AddPending(stock, tree_type_id, location_id,
                                             quantity, cost_per_seedling, t),
                        transactions |-> transactions]
            after == Commit(ok, Store, pending)
        IN /\ Len(stock) < MaxLots
           /\ get_tree_type_by_id(tree_types, tree_type_id)
           /\ stock' = after.stock
           /\ transactions' = after.transactions
           /\ prev' = Store
           /\ last' = IF ok
                      THEN Call("add_stock_entry", tree_type_id, location_id,
                                quantity, cost_per_seedling, "ok",
                                Len(stock) + 1, 0)
                      ELSE Raised("add_stock_entry")
           /\ added' = IF ok
                       THEN [added EXCEPT ![tree_type_id] = @ + quantity]
                       ELSE added
           /\ UNCHANGED tree_types

\* ------------------------------------------------------ move_stock_quantity
\* A guard that lets one seedling more than the lot holds go through.
InsufficientSourceOffByOne(from_quantity, quantity_to_move) ==
    from_quantity + 1 < quantity_to_move

\* A guard that only refuses to move out of an empty lot.
InsufficientSourceEmptyOnly(from_quantity, quantity_to_move) ==
    from_quantity <= 0

\* line 87: from_stock.quantity < quantity_to_move
InsufficientSource(from_quantity, quantity_to_move) ==
    from_quantity < quantity_to_move

\* lines 90-93: the rows .first() may return (no ORDER BY: any matching
\* row), 0 standing for None
ExistingToStock(s, tree_type_id, to_location_id) ==
    LET matching == {i \in DOMAIN s : /\ s[i].tree_type_id = tree_type_id
                                      /\ s[i].location_id = to_location_id}
    IN IF matching = {} THEN {0} ELSE matching

\* A credit that forgets the increment of an existing destination lot.
CreditDestinationNoMerge(s, from_stock_id, to_location_id, quantity_to_move, existing, t) ==
    IF existing # 0
    THEN s
    ELSE Append(s, Stock(s[from_stock_id].tree_type_id, to_location_id,
                         quantity_to_move,
                         s[from_stock_id].cost_per_seedling, t))

\* lines 95-105: increment the existing destination lot or add a new one
CreditDestination(s, from_stock_id, to_location_id, quantity_to_move, existing, t) ==
    IF existing # 0
    THEN [s EXCEPT ![existing].quantity = @ + quantity_to_move]
    ELSE Append(s, Stock(s[from_stock_id].tree_type_id, to_location_id,
                         quantity_to_move,
                         s[from_stock_id].cost_per_seedling, t))

\* line 107: from_stock.quantity -= quantity_to_move.  from_stock and
\* existing_to_stock are the same session object when their ids are equal,
\* so the decrement applies to the row as already credited.
DebitSource(s, from_stock_id, quantity_to_move) ==
    [s EXCEPT ![from_stock_id].quantity = @ - quantity_to_move]

MoveStockQuantity(from_stock_id, to_location_id, quantity_to_move) ==
    IF \/ ~get_stock_by_id(stock, from_stock_id)
       \/ InsufficientSource(stock[from_stock_id].quantity, quantity_to_move)
    THEN /\ prev' = Store
         /\ last' = ReturnedNone("move_stock_quantity", from_stock_id)
         /\ UNCHANGED <<tree_types, stock, transactions, added>>
    ELSE \E existing \in ExistingToStock(stock, stock[from_stock_id].tree_type_id,
                                         to_location_id),
            ok \in BOOLEAN :
            LET t == Now(stock)
                credited == CreditDestination(stock, from_stock_id, to_location_id,
                                              quantity_to_move, existing, t)
                pending == [stock |-> DebitSource(credited, from_stock_id,
                                                  quantity_to_move),
                            transactions |-> transactions]
                after == Commit(ok, Store, pending)
                to_stock_id == IF existing # 0 THEN existing ELSE Len(stock) + 1
            IN /\ existing = 0 => Len(stock) < MaxLots
               /\ stock' = after.stock
               /\ transactions' = after.transactions
               /\ prev' = Store
               /\ last' = IF ok
                          THEN Call("move_stock_quantity", from_stock_id,
                                    to_location_id, quantity_to_move, 0, "ok",
                                    from_stock_id, to_stock_id)
                          ELSE Raised("move_stock_quantity")
               /\ UNCHANGED <<tree_types, added>>

move_stock_quantity ==
    \E from_stock_id \in LotIds, to_location_id \in LocIds,
       quantity_to_move \in Quantities :
        MoveStockQuantity(from_stock_id, to_location_id, quantity_to_move)

\* -------------------------------------------------------------- record_sale
\* lines 127-129: ids of the lots of the type with quantity > 0
AvailableStock(s, tree_type_id) ==
    {i \in DOMAIN s : s[i].tree_type_id = tree_type_id /\ s[i].quantity > 0}

\* The entries newest first.
AvailableStockEntriesDesc(s, tree_type_id) ==
    LET avail == AvailableStock(s, tree_type_id)
        n == Cardinality(avail)
    IN {o \in [1..n -> avail] :
          /\ \A i, j \in 1..n : i # j => o[i] # o[j]
          /\ \A i, j \in 1..n : i < j => s[o[i]].date_added >= s[o[j]].date_added}

\* lines 127-130: the lists .order_by(Stock.date_added.asc()).all() may
\* return: every arrangement of the available lots with date_added
\* ascending (rows with equal date_added come in any order)
AvailableStockEntries(s, tree_type_id) ==
    LET avail == AvailableStock(s, tree_type_id)
        n == Cardinality(avail)
    IN {o \in [1..n -> avail] :
          /\ \A i, j \in 1..n : i # j => o[i] # o[j]
          /\ \A i, j \in 1..n : i < j => s[o[i]].date_added <= s[o[j]].date_added}

\* line 132: total_available_quantity
TotalAvailableQuantity(s, tree_type_id) ==
    SumQty(s, AvailableStock(s, tree_type_id))

\* A check that lets a sale of one more than the stock go through.
InsufficientStockOffByOne(total_available_quantity, quantity_sold) ==
    total_available_quantity + 1 < quantity_sold

\* line 134: total_available_quantity < quantity_sold
InsufficientStock(total_available_quantity, quantity_sold) ==
    total_available_quantity < quantity_sold

\* A loop that stops after the first lot, whatever is left to sell.
ConsumeLotsFirstLotOnly(s, entries, i, remaining_to_sell) ==
    IF i > Len(entries) \/ remaining_to_sell <= 0
    THEN s
    ELSE LET id == entries[i]
         IN IF s[id].quantity >= remaining_to_sell
            THEN [s EXCEPT ![id].quantity = @ - remaining_to_sell]
            ELSE [s EXCEPT ![id].quantity = 0]

RECURSIVE ConsumeLots(_, _, _, _)
\* lines 137-147: the loop over available_stock_entries from position i
ConsumeLots(s, entries, i, remaining_to_sell) ==
    IF i > Len(entries) \/ remaining_to_sell <= 0
    THEN s
    ELSE LET id == entries[i]
         IN IF s[id].quantity >= remaining_to_sell
            THEN ConsumeLots([s EXCEPT ![id].quantity = @ - remaining_to_sell],
                             entries, i + 1, 0)
            ELSE ConsumeLots([s EXCEPT ![id].quantity = 0],
                             entries, i + 1,
                             remaining_to_sell - s[id].quantity)

\* A transaction that records the price of one unit as its total.
SaleTransactionUnitTotal(tree_type_id, quantity_sold, unit_sale_price, t) ==
    Transaction(tree_type_id, quantity_sold, unit_sale_price,
                unit_sale_price, t)

\* lines 149-158: the Transaction row of a sale
SaleTransaction(tree_type_id, quantity_sold, unit_sale_price, t) ==
    Transaction(tree_type_id, quantity_sold, unit_sale_price,
                unit_sale_price * quantity_sold, t)

\* A sale that adds to the Transaction the type already has.
AddTransactionMerging(tx, row) ==
    LET same == {i \in DOMAIN tx : tx[i].tree_type_id = row.tree_type_id}
    IN IF same = {}
       THEN Append(tx, row)
       ELSE LET i == CHOOSE x \in same : TRUE
            IN [tx EXCEPT ![i].quantity_sold = @ + row.quantity_sold,
                          ![i].total_amount = @ + row.total_amount]

\* line 159: db.add(db_transaction)
AddTransaction(tx, row) == Append(tx, row)

\* record_sale called when the clock reads t and the transaction table has
\* room for max_tx rows.
RecordSaleAt(tree_type_id, quantity_sold, t, max_tx) ==
    IF \/ ~get_tree_type_by_id(tree_types, tree_type_id)
       \/ InsufficientStock(TotalAvailableQuantity(stock, tree_type_id),
                            quantity_sold)
    THEN /\ prev' = Store
         /\ last' = ReturnedNone("record_sale", tree_type_id)
         /\ UNCHANGED <<tree_types, stock, transactions, added>>
    ELSE \E entries \in AvailableStockEntries(stock, tree_type_id),
            ok \in BOOLEAN :
            LET pending ==
                    [stock |-> ConsumeLots(stock, entries, 1, quantity_sold),
                     transactions |->
                         AddTransaction(transactions,
                                SaleTransaction(tree_type_id, quantity_sold,
                                    tree_types[tree_type_id].base_unit_price, t))]
                after == Commit(ok, Store, pending)
            IN /\ Len(pending.transactions) <= max_tx
               /\ stock' = after.stock
               /\ transactions' = after.transactions
               /\ prev' = Store
               /\ last' = IF ok
                          THEN Call("record_sale", tree_type_id, 0,
                                    quantity_sold, 0, "ok",
                                    Len(transactions) + 1, 0)
                          ELSE Raised("record_sale")
               /\ UNCHANGED <<tree_types, added>>

RecordSale(tree_type_id, quantity_sold) ==
    RecordSaleAt(tree_type_id, quantity_sold, Now(transactions), MaxTx)

record_sale ==
    \E tree_type_id \in TypeIds, quantity_sold \in Quantities :
        RecordSale(tree_type_id, quantity_sold)

Next ==
    \/ create_tree_type
    \/ add_stock_entry
    \/ move_stock_quantity
    \/ record_sale

Spec == Init /\ [][Next]_vars

\* ------------------------------------------------------------ sales history
\* Time for the sales history.  A clock reading t (datetime.datetime.now())
\* falls on day t \div TicksPerDay at tick t % TicksPerDay of that day; tick 0
\* is midnight.  A datetime.date is its day number; 0 stands for None.
None == 0
Dates == {1}
\* The readings around each date: the last tick of the day before, midnight
\* and the last tick of the day, midnight of the day after.
ClockReadings ==
    UNION {{date * TicksPerDay - 1, date * TicksPerDay,
            (date + 1) * TicksPerDay - 1, (date + 1) * TicksPerDay} :
           date \in Dates}

\* The DateTime column as the store keeps it: the text
\* "YYYY-MM-DD HH:MM:SS.ffffff", the date part before the time part.
StorageFormat(t) == <<t \div TicksPerDay, t % TicksPerDay>>

\* A datetime.date as bound to the query: the text "YYYY-MM-DD" when the
\* parameter takes the Date type of its value, the text of midnight of the
\* day when it takes the DateTime type of the column.
BindDate(date, as_type) ==
    IF as_type = "Date" THEN <<date>> ELSE <<date, 0>>

\* a < b for texts as the store compares them: by the first position where
\* they differ, a proper prefix coming first
TextLess(a, b) ==
    LET n == IF Len(a) < Len(b) THEN Len(a) ELSE Len(b)
        differ == {i \in 1..n : a[i] # b[i]}
    IN IF differ = {}
       THEN Len(a) < Len(b)
       ELSE LET i == CHOOSE x \in differ : \A y \in differ : x <= y
            IN a[i] < b[i]

\* An end bound that stops at the start of end_date.
EndBoundSameDay(end_date) == end_date

\* line 171: end_date + datetime.timedelta(days=1)
EndBound(end_date) == end_date + 1

\* line 167 and 172: the lists .order_by(transaction_date.desc()).all() may
\* return for the rows that pass the filters (rows with equal
\* transaction_date come in any order)
QueryResults(tx, matching) ==
    LET n == Cardinality(matching)
    IN {o \in [1..n -> matching] :
          /\ \A i, j \in 1..n : i # j => o[i] # o[j]
          /\ \A i, j \in 1..n : i < j =>
                ~TextLess(StorageFormat(tx[o[i]].transaction_date),
                          StorageFormat(tx[o[j]].transaction_date))}

\* lines 167-172: the query with its filters, under one typing of the bound
\* dates
GetAllTransactions(start_date, end_date, as_type) ==
    LET date(i) == StorageFormat(transactions[i].transaction_date)
        matching ==
            {i \in DOMAIN transactions :
                /\ start_date # None =>
                       ~TextLess(date(i), BindDate(start_date, as_type))
                /\ end_date # None =>
                       TextLess(date(i), BindDate(EndBound(end_date), as_type))}
    IN \E rows \in QueryResults(transactions, matching) :
          /\ prev' = Store
          /\ last' = Call("get_all_transactions", start_date, end_date,
                          0, 0, "ok", rows, 0)
          /\ UNCHANGED <<tree_types, stock, transactions, added>>

get_all_transactions ==
    \E start_date \in Dates \cup {None}, end_date \in Dates \cup {None},
       as_type \in {"Date", "DateTime"} :
        GetAllTransactions(start_date, end_date, as_type)

\* record_sale at any reading of the wall clock: datetime.datetime.now() is
\* local time and may read earlier than it did at the sale before.
record_sale_at ==
    \E tree_type_id \in TypeIds, quantity_sold \in Quantities,
       t \in ClockReadings :
        RecordSaleAt(tree_type_id, quantity_sold, t, MaxHistory)

\* The ledger operations and the sales-history query.
NextAudit ==
    \/ create_tree_type
    \/ add_stock_entry
    \/ move_stock_quantity
    \/ record_sale
    \/ get_all_transactions

SpecAudit == Init /\ [][NextAudit]_vars

\* The store after the first tree type of the catalogue was registered.
InitHistory ==
    /\ tree_types = <<[base_unit_price |-> BasePriceOf(1)]>>
    /\ stock = << >>
    /\ transactions = << >>
    /\ prev = [stock |-> << >>, transactions |-> << >>]
    /\ last = NoCall
    /\ added = [tree_type_id \in TypeIds |-> 0]

\* Deliveries, sales at any time of day and sales-history queries.
NextHistory ==
    \/ add_stock_entry
    \/ record_sale_at
    \/ get_all_transactions

SpecHistory == InitHistory /\ [][NextHistory]_vars

\* ------------------------------------------------------------------ claims
\* Total quantity of a tree type over all lots and all locations.
TypeTotal(s, tree_type_id) ==
    SumQty(s, {i \in DOMAIN s : s[i].tree_type_id = tree_type_id})

\* Total quantity of a tree type at one location.
TypeTotalAt(s, tree_type_id, location_id) ==
    SumQty(s, {i \in DOMAIN s : /\ s[i].tree_type_id = tree_type_id
                                /\ s[i].location_id = location_id})

\* Total quantity over every lot.
AllTotal(s) == SumQty(s, DOMAIN s)

Moved == last.op = "move_stock_quantity" /\ last.ret = "ok"
Sold == last.op = "record_sale" /\ last.ret = "ok"
Added == last.op = "add_stock_entry" /\ last.ret = "ok"

\* C1: in every state reached by add_stock_entry, move_stock_quantity and
\* record_sale calls with strictly positive quantities, every stock lot has
\* quantity >= 0.
C1_QuantityNeverNegative ==
    \A i \in DOMAIN stock : stock[i].quantity >= 0

\* A move or a sale has just emptied a lot that held stock.
C1_Witness ==
    /\ Moved \/ Sold
    /\ \E i \in DOMAIN prev.stock :
          prev.stock[i].quantity > 0 /\ stock[i].quantity = 0

\* C2: record_sale is a no-op whenever the tree type id does not exist or
\* the requested quantity exceeds the sum of the quantities of all lots of
\* the type: it returns None, no lot changes, no Transaction is created.
C2_SaleNoOp ==
    [][\A tree_type_id \in TypeIds, quantity_sold \in Quantities :
          ( /\ last'.op = "record_sale"
            /\ \/ tree_type_id \notin DOMAIN tree_types
               \/ quantity_sold > TypeTotal(stock, tree_type_id)
            /\ RecordSale(tree_type_id, quantity_sold) )
          => /\ last'.ret = "None"
             /\ stock' = stock
             /\ transactions' = transactions]_vars

\* A sale of a registered type was refused although some of it is in stock.
C2_Witness ==
    /\ last.op = "record_sale" /\ last.ret = "None"
    /\ last.x \in DOMAIN tree_types
    /\ TypeTotal(stock, last.x) >= 1
    /\ stock = prev.stock /\ transactions = prev.transactions

\* C3: a successful record_sale consumes the lots of the sold type oldest
\* first: of two lots of the type with distinct creation times that both
\* held stock before the sale, the newer one is reduced only if the older
\* one is left at 0; at most one lot is left partially consumed.
C3_SaleIsFifo ==
    Sold =>
      LET before == prev.stock
          ofType == {i \in DOMAIN before :
                        before[i].tree_type_id = last.x}
          partial == {i \in ofType :
                        /\ stock[i].quantity < before[i].quantity
                        /\ stock[i].quantity > 0}
      IN /\ \A a, b \in ofType :
               ( /\ before[a].date_added < before[b].date_added
                 /\ before[a].quantity > 0 /\ before[b].quantity > 0
                 /\ stock[b].quantity < before[b].quantity )
               => stock[a].quantity = 0
         /\ Cardinality(partial) <= 1

\* A sale has reduced a newer lot after emptying an older one.
C3_Witness ==
    /\ Sold
    /\ \E a, b \in DOMAIN prev.stock :
          /\ prev.stock[a].tree_type_id = last.x
          /\ prev.stock[b].tree_type_id = last.x
          /\ prev.stock[a].date_added < prev.stock[b].date_added
          /\ prev.stock[a].quantity > 0
          /\ stock[a].quantity = 0
          /\ stock[b].quantity < prev.stock[b].quantity

\* C4: every record_sale call that returns, made when the total available
\* quantity of the type is >= the requested quantity, takes exactly the
\* requested quantity off the lots and creates exactly one Transaction, with
\* quantity_sold the requested quantity, unit price the base price of the
\* type and total_amount = unit price x quantity_sold.
C4_SaleEffect ==
    [][\A tree_type_id \in TypeIds, quantity_sold \in Quantities :
          ( /\ last'.op = "record_sale"
            /\ last'.ret # "raise"
            /\ tree_type_id \in DOMAIN tree_types
            /\ TypeTotal(stock, tree_type_id) >= quantity_sold
            /\ RecordSale(tree_type_id, quantity_sold) )
          => /\ last'.ret = "ok"
             /\ DOMAIN stock' = DOMAIN stock
             /\ \A i \in DOMAIN stock : stock'[i].quantity <= stock[i].quantity
             /\ AllTotal(stock) - AllTotal(stock') = quantity_sold
             /\ Len(transactions') = Len(transactions) + 1
             /\ SubSeq(transactions', 1, Len(transactions)) = transactions
             /\ LET tx == transactions'[Len(transactions')]
                IN /\ tx.quantity_sold = quantity_sold
                   /\ tx.unit_sale_price_at_time_of_sale =
                          tree_types[tree_type_id].base_unit_price
                   /\ tx.total_amount =
                          tx.unit_sale_price_at_time_of_sale * tx.quantity_sold]_vars

\* A sale of two seedlings has been recorded.
C4_Witness ==
    /\ Sold /\ last.q = 2
    /\ Len(transactions) = Len(prev.transactions) + 1
    /\ AllTotal(prev.stock) - AllTotal(stock) = 2

\* C5: move_stock_quantity never changes the total quantity of any tree
\* type summed over all lots and locations, whatever the source lot, the
\* destination location (the source lot's own included) and the outcome.
C5_MovePreservesTypeTotals ==
    last.op = "move_stock_quantity" =>
        \A tree_type_id \in TypeIds :
            TypeTotal(stock, tree_type_id) = TypeTotal(prev.stock, tree_type_id)

\* A move has taken stock out of one lot and put it into another.
C5_Witness ==
    /\ Moved /\ last.r1 # last.r2
    /\ stock[last.r1].quantity = prev.stock[last.r1].quantity - last.q
    /\ last.r2 \in DOMAIN prev.stock
    /\ stock[last.r2].quantity = prev.stock[last.r2].quantity + last.q

\* The quantity of lot id in table s, 0 when the table has no such row.
QuantityIn(s, id) == IF id \in DOMAIN s THEN s[id].quantity ELSE 0

\* C6: after every successful move_stock_quantity the source lot's quantity
\* has decreased by exactly the moved amount and the destination lot's
\* quantity has increased by exactly the moved amount, also when the lot
\* found at the destination is the source lot itself.
C6_MoveDebitsAndCredits ==
    Moved =>
        /\ stock[last.r1].quantity = prev.stock[last.r1].quantity - last.q
        /\ stock[last.r2].quantity = QuantityIn(prev.stock, last.r2) + last.q

\* C7: move_stock_quantity is a no-op whenever the source lot id does not
\* exist or quantity_to_move is greater than the source lot's quantity: it
\* returns None, no lot is mutated, no lot is created.  (A step is looked at
\* as a call on from_stock_id when the call record names that lot or the
\* call raised.)
C7_MoveNoOp ==
    [][\A from_stock_id \in LotIds, to_location_id \in LocIds,
          quantity_to_move \in Quantities :
          ( /\ last'.op = "move_stock_quantity"
            /\ last'.ret = "raise" \/ last'.x = from_stock_id
            /\ \/ from_stock_id \notin DOMAIN stock
               \/ quantity_to_move > stock[from_stock_id].quantity
            /\ MoveStockQuantity(from_stock_id, to_location_id, quantity_to_move) )
          => /\ last'.ret = "None"
             /\ stock' = stock
             /\ transactions' = transactions]_vars

\* A move out of an existing lot that holds stock was refused.
C7_Witness ==
    /\ last.op = "move_stock_quantity" /\ last.ret = "None"
    /\ last.x \in DOMAIN stock
    /\ stock[last.x].quantity >= 1
    /\ stock = prev.stock

\* Lots of the source's tree type at the destination before the move.
AtDestination ==
    {i \in DOMAIN prev.stock :
        /\ prev.stock[i].tree_type_id = prev.stock[last.r1].tree_type_id
        /\ prev.stock[i].location_id = last.y}

\* C8: a successful move_stock_quantity credits the destination by merge or
\* create: if a lot of the source's type exists at the destination (even
\* with quantity 0) the number of rows is unchanged and one such lot is
\* incremented; otherwise exactly one lot is created there with the
\* source's type, the moved amount and the source lot's cost per unit.
C8_MergeOrCreate ==
    Moved =>
        IF AtDestination # {}
        THEN /\ Len(stock) = Len(prev.stock)
             /\ \E i \in AtDestination :
                   stock[i].quantity = prev.stock[i].quantity + last.q
        ELSE /\ Len(stock) = Len(prev.stock) + 1
             /\ LET new == stock[Len(stock)]
                IN /\ new.tree_type_id = prev.stock[last.r1].tree_type_id
                   /\ new.location_id = last.y
                   /\ new.quantity = last.q
                   /\ new.cost_per_seedling =
                          prev.stock[last.r1].cost_per_seedling

\* Lots whose quantity the last call lowered, and lots it raised or created.
Debited == {i \in DOMAIN prev.stock : stock[i].quantity < prev.stock[i].quantity}
Credited == {i \in DOMAIN stock : stock[i].quantity > QuantityIn(prev.stock, i)}

\* C9: move and sale are all-or-nothing against the committed store: a call
\* whose commit fails leaves the store as it was, a move never leaves the
\* source debited without the destination credited (or the reverse), and a
\* sale never leaves lots decremented without its Transaction row (or the
\* reverse).
C9_AllOrNothing ==
    /\ last.ret = "raise" =>
          stock = prev.stock /\ transactions = prev.transactions
    /\ last.op = "move_stock_quantity" =>
          /\ (Debited = {}) <=> (Credited = {})
          /\ AllTotal(stock) = AllTotal(prev.stock)
    /\ last.op = "record_sale" =>
          /\ (Debited = {}) <=> (Len(transactions) = Len(prev.transactions))
          /\ Credited = {}

\* The commit of a sale that had lot decrements and a Transaction pending
\* has failed.
C9_Witness ==
    /\ last.op = "record_sale" /\ last.ret = "raise"
    /\ \E tree_type_id \in DOMAIN tree_types :
          TypeTotal(stock, tree_type_id) >= 1

\* C10: add_stock_entry with a valid type, location, quantity > 0 and
\* cost >= 0 creates exactly one new lot with that quantity and cost,
\* whatever lots exist for the (type, location) pair; the total of the type
\* at the location grows by exactly quantity, and no earlier lot and no
\* transaction changes.
C10_AddCreatesIndependentLot ==
    Added =>
        /\ Len(stock) = Len(prev.stock) + 1
        /\ SubSeq(stock, 1, Len(prev.stock)) = prev.stock
        /\ LET new == stock[Len(stock)]
           IN /\ new.tree_type_id = last.x
              /\ new.location_id = last.y
              /\ new.quantity = last.q
              /\ new.cost_per_seedling = last.cost
        /\ TypeTotalAt(stock, last.x, last.y) =
               TypeTotalAt(prev.stock, last.x, last.y) + last.q
        /\ transactions = prev.transactions

\* Stock was added where a lot of the same type and location already was.
C10_Witness ==
    /\ Added
    /\ \E i \in DOMAIN prev.stock :
          /\ prev.stock[i].tree_type_id = last.x
          /\ prev.stock[i].location_id = last.y

InDateRange(t, start_date, end_date) ==
    /\ start_date # None => start_date * TicksPerDay <= t
    /\ end_date # None => t < (end_date + 1) * TicksPerDay

Queried == last.op = "get_all_transactions"

\* C12: get_all_transactions returns exactly the transactions with
\* start_date <= transaction_date < end_date + 1 day (each bound applied only
\* when given), so one at any time of day on end_date is included; the
\* result is ordered by transaction date descending; the query changes no
\* stored state.
C12_SalesHistoryQuery ==
    Queried =>
        LET rows == last.r1
            n == Len(rows)
        IN /\ \A i, j \in 1..n : i # j => rows[i] # rows[j]
           /\ {rows[i] : i \in 1..n} =
                  {id \in DOMAIN transactions :
                      InDateRange(transactions[id].transaction_date,
                                  last.x, last.y)}
           /\ \A i, j \in 1..n : i < j =>
                  transactions[rows[i]].transaction_date >=
                      transactions[rows[j]].transaction_date
           /\ stock = prev.stock
           /\ transactions = prev.transactions

\* A query up to end_date has returned a sale made at the last tick of
\* end_date and left out one made at midnight of the day after.
C12_Witness ==
    /\ Queried /\ last.y # None
    /\ \E i \in 1..Len(last.r1) :
          transactions[last.r1[i]].transaction_date =
              (last.y + 1) * TicksPerDay - 1
    /\ \E id \in DOMAIN transactions :
          /\ transactions[id].transaction_date = (last.y + 1) * TicksPerDay
          /\ \A i \in 1..Len(last.r1) : last.r1[i] # id

RECURSIVE SumSold(_, _)
\* Sum of quantity_sold over the rows of table tx with ids in ids.
SumSold(tx, ids) ==
    IF ids = {} THEN 0
    ELSE LET i == CHOOSE x \in ids : TRUE
         IN tx[i].quantity_sold + SumSold(tx, ids \ {i})

\* Total quantity_sold over all Transactions of a tree type.
TypeSold(tx, tree_type_id) ==
    SumSold(tx, {i \in DOMAIN tx : tx[i].tree_type_id = tree_type_id})

\* C13: ledger conservation: in every state reached by add_stock_entry,
\* move_stock_quantity and record_sale calls with positive quantities, for
\* each tree type the sum of the quantities added by add_stock_entry equals
\* the sum of the current quantities of its lots plus the sum of
\* quantity_sold of its Transactions; total sold never exceeds total added.
C13_LedgerConservation ==
    \A tree_type_id \in TypeIds :
        /\ added[tree_type_id] =
               TypeTotal(stock, tree_type_id) + TypeSold(transactions, tree_type_id)
        /\ TypeSold(transactions, tree_type_id) <= added[tree_type_id]

\* A sale that took stock from two lots has been recorded, and
\* part of what was added is still in stock.
C13_Witness ==
    /\ Sold
    /\ Cardinality(Debited) = 2
    /\ TypeSold(transactions, last.x) >= 2
    /\ TypeTotal(stock, last.x) >= 1
    /\ added[last.x] = TypeTotal(stock, last.x) + TypeSold(transactions, last.x)

====
